---- MODULE Spec2Model ----
(***************************************************************************)
(* Model of the Whisper JNI bridge (native_bridge/whisper_jni.cpp):        *)
(* the three context initializers, the model-loader callbacks over a Java  *)
(* InputStream and over an Android asset, freeContext and fullTranscribe.  *)
(*                                                                         *)
(* Units.  Audio samples are integers in units of 0.0001, so the silence   *)
(* threshold 0.001f is 10.  The three decode thresholds are integers in    *)
(* tenths (2.8f is 28).  Float arithmetic is modelled exactly; the sample  *)
(* values used are far from the rounding error of a float sum.             *)
(* Byte counts are small naturals: every read_size drawn here is below     *)
(* 2^31, so (jint)read_size is read_size.                                  *)
(***************************************************************************)
EXTENDS Integers, Sequences, FiniteSets, TLC

VARIABLES
    phase,        \* "start" | "loading" | "ready" | "null" | "freed" | "crashed"
    origin,       \* "none" | "file" | "asset" | "stream"
    originOk,     \* the origin could be opened / resolved
    handle,       \* the jlong the initializer returned: 0 is the null handle
    inp_ctx,      \* struct input_stream_context: [offset, resolved]
    stream,       \* the host InputStream: [avail, left, open]
    consumed,     \* bytes the host stream's read actually delivered so far
    asset,        \* the AAsset: [state, left], state "none" | "open" | "closed"
    engineInits,  \* calls of an engine init entry point
    cbCalls,      \* loader read and eof callbacks invoked
    closeCalls,   \* loader close callbacks invoked
    lastRead,     \* what the last input_stream_read did
    lastEof,      \* what the last eof callback saw and returned
    lastOp,       \* the operation or callback that ran last
    fullCalls,    \* calls of whisper_full
    failStreak,   \* consecutive whisper_full calls that returned non-zero
    lastStatus,   \* status of the last whisper_full call
    engineParams, \* whisper_full_params handed to the last whisper_full call
    diag,         \* diagnostics of the last fullTranscribe call
    bufAcquired,  \* GetFloatArrayElements calls
    bufReleased   \* ReleaseFloatArrayElements calls

vars == <<phase, origin, originOk, handle, inp_ctx, stream, consumed, asset,
          engineInits, cbCalls, closeCalls, lastRead, lastEof, lastOp,
          fullCalls, failStreak, lastStatus, engineParams, diag,
          bufAcquired, bufReleased>>

loaderVars == <<inp_ctx, stream, consumed, asset, cbCalls, closeCalls,
                lastRead, lastEof>>
transcribeVars == <<fullCalls, failStreak, lastStatus, engineParams, diag,
                    bufAcquired, bufReleased>>

(***************************************************************************)
(* Bounds                                                                  *)
(***************************************************************************)
MaxStream == 2        \* bytes a host stream or an asset holds
MaxNegAvail == 1      \* available() may report down to -MaxNegAvail
MaxReadSize == 3      \* largest read_size the engine asks for
MaxEngineCalls == 3   \* read/eof callbacks the engine makes during one init
MaxLen == 3           \* longest audio buffer the diagnostics are run on
MaxCallLen == 1       \* longest audio buffer in a run of several calls
MaxThreads == 2       \* largest thread-count hint
MaxTranscribes == 3   \* fullTranscribe calls on one handle

\* InputStream.available(): an estimate, at most what the stream still
\* holds; a stream may report 0 or a negative number.
Available(left) == (0 - MaxNegAvail)..left
\* The read_size values the engine asks for
ReadSizes == 0..MaxReadSize

Min(a, b) == IF a < b THEN a ELSE b
Max(a, b) == IF a > b THEN a ELSE b

NoRead == [valid |-> FALSE, read_size |-> 0, avail_size |-> 0,
           size_to_copy |-> 0, n_read |-> 0, ret |-> 0]
NoEof == [valid |-> FALSE, avail |-> 0, result |-> FALSE]

(***************************************************************************)
(* Loader over a Java InputStream                                          *)
(***************************************************************************)

\* read_size < (size_t)avail_size: the cast sends a negative jint to
\* 2^64 + avail_size, which is above every read_size.
SizeTLess(read_size, avail_size) ==
    IF avail_size < 0 THEN TRUE ELSE read_size < avail_size

\* jint size_to_copy = read_size < (size_t)avail_size ? (jint)read_size : avail_size
SizeToCopy(read_size, avail_size) ==
    IF SizeTLess(read_size, avail_size) THEN read_size ELSE avail_size

\* InputStream.read(b, 0, len): 0 for len 0, -1 at end of stream, else
\* between 1 and len bytes, never more than the stream still holds.
HostRead(len, left) ==
    IF len <= 0 THEN {0}
    ELSE IF left = 0 THEN {-1}
    ELSE 1..Min(len, left)

\* return size_to_copy
ReadReturn(size_to_copy, n_read) == size_to_copy

\* is->offset += size_to_copy
OffsetAfterRead(offset, size_to_copy, n_read) == offset + size_to_copy

input_stream_eof_Consuming(st) ==
    [ret |-> st.left = 0,
     st |-> [st EXCEPT !.left = Max(st.left - 1, 0),
                       !.avail = Max(st.avail - 1, 0)]]

\* input_stream_eof: available() <= 0, the stream untouched
input_stream_eof(st) ==
    [ret |-> st.avail <= 0, st |-> st]

\* input_stream_close: UNUSED(ctx)
input_stream_close(st) == st

(***************************************************************************)
(* Loader over an Android asset                                            *)
(***************************************************************************)

\* asset_read: AAsset_read delivers what is left, up to read_size
asset_read(a, read_size) ==
    [ret |-> Min(read_size, a.left),
     a |-> [a EXCEPT !.left = a.left - Min(read_size, a.left)]]

\* asset_is_eof: AAsset_getRemainingLength64 <= 0
asset_is_eof(a) ==
    [ret |-> a.left <= 0, a |-> a]

asset_close_Leak(a) == a

\* asset_close: AAsset_close
asset_close(a) == [a EXCEPT !.state = "closed"]

(***************************************************************************)
(* fullTranscribe: diagnostics and parameters                              *)
(***************************************************************************)
SilenceThold == 10    \* 0.001f
EntropyThold == 28    \* 2.8f
LogprobThold == -15   \* -1.5f
NoSpeechThold == 3    \* 0.3f

Samples == {-100, -5, 0, 5, 100}

RECURSIVE SeqsUpTo(_)
SeqsUpTo(n) ==
    IF n = 0 THEN {<<>>}
    ELSE LET shorter == SeqsUpTo(n - 1)
         IN  shorter \cup {Append(s, v) : s \in {t \in shorter : Len(t) = n - 1},
                                          v \in Samples}

Buffers == SeqsUpTo(MaxLen)
Threads == 0..MaxThreads
ShortBuffers == SeqsUpTo(MaxCallLen)
StatusVals == {0, -1}

Abs(v) == IF v >= 0 THEN v ELSE 0 - v

\* The loop over audio_data_arr: one iteration per sample, from i on.
RECURSIVE AnalyzeFrom(_, _, _)
AnalyzeFrom(buf, i, acc) ==
    IF i > Len(buf) THEN acc
    ELSE LET v == buf[i]
         IN  AnalyzeFrom(buf, i + 1,
                 [min_val  |-> IF v < acc.min_val THEN v ELSE acc.min_val,
                  max_val  |-> IF v > acc.max_val THEN v ELSE acc.max_val,
                  sum_abs  |-> acc.sum_abs + Abs(v),
                  non_zero |-> IF v # 0 THEN acc.non_zero + 1 ELSE acc.non_zero])

\* float min_val = 0, max_val = 0, sum_abs = 0; int non_zero = 0; the loop
Analyze(buf) ==
    AnalyzeFrom(buf, 1, [min_val |-> 0, max_val |-> 0, sum_abs |-> 0, non_zero |-> 0])

\* float avg_abs = sum_abs / audio_data_length, kept as a quotient:
\* 0.0f / 0 is NaN, and sum_abs is 0 whenever the length is 0.
AvgAbs(sum_abs, audio_data_length) ==
    [num |-> sum_abs, den |-> audio_data_length]

\* q < thold on floats: every comparison with NaN is false
FloatLess(q, thold) ==
    IF q.den = 0 THEN FALSE ELSE q.num < thold * q.den

\* if (avg_abs < 0.001f) LOGW("Audio appears silent!")
AppearsSilent(avg_abs) == FloatLess(avg_abs, SilenceThold)

\* whisper_full_default_params(strategy): the engine's defaults.  real is
\* the set whisper.cpp ships; the other one differs in every field the
\* bridge assigns, so that each assignment shows.
DefaultParams(strategy, real) ==
    [strategy         |-> strategy,
     print_realtime   |-> ~real,
     print_progress   |-> real,
     print_timestamps |-> real,
     print_special    |-> ~real,
     translate        |-> ~real,
     language         |-> IF real THEN "en" ELSE "auto",
     n_threads        |-> IF real THEN 4 ELSE 8,
     offset_ms        |-> IF real THEN 0 ELSE 1,
     no_context       |-> real,
     single_segment   |-> ~real,
     entropy_thold    |-> IF real THEN 24 ELSE 0,
     logprob_thold    |-> IF real THEN -10 ELSE 0,
     no_speech_thold  |-> IF real THEN 6 ELSE 0]

NoParams == DefaultParams("none", TRUE)

BuildParams_DefaultThresholds(d, num_threads) ==
    [d EXCEPT !.print_realtime = FALSE, !.print_progress = FALSE,
              !.print_timestamps = TRUE, !.print_special = FALSE,
              !.translate = FALSE, !.language = "en",
              !.n_threads = num_threads, !.offset_ms = 0,
              !.no_context = TRUE, !.single_segment = FALSE]

BuildParams_KeepProgress(d, num_threads) ==
    [d EXCEPT !.print_realtime = FALSE,
              !.print_timestamps = TRUE, !.print_special = FALSE,
              !.translate = FALSE, !.language = "en",
              !.n_threads = num_threads, !.offset_ms = 0,
              !.no_context = TRUE, !.single_segment = FALSE,
              !.entropy_thold = EntropyThold, !.logprob_thold = LogprobThold,
              !.no_speech_thold = NoSpeechThold]

\* The assignments to params between whisper_full_default_params and whisper_full
BuildParams(d, num_threads) ==
    [d EXCEPT !.print_realtime = FALSE, !.print_progress = FALSE,
              !.print_timestamps = TRUE, !.print_special = FALSE,
              !.translate = FALSE, !.language = "en",
              !.n_threads = num_threads, !.offset_ms = 0,
              !.no_context = TRUE, !.single_segment = FALSE,
              !.entropy_thold = EntropyThold, !.logprob_thold = LogprobThold,
              !.no_speech_thold = NoSpeechThold]

ReleasedAfter_OnlyOnSuccess(released, status) ==
    IF status # 0 THEN released ELSE released + 1

\* env->ReleaseFloatArrayElements(audio_data, audio_data_arr, JNI_ABORT),
\* after the if/else on whisper_full's status
ReleasedAfter(released, status) == released + 1

NoDiag == [valid |-> FALSE, samples |-> <<>>, num_threads |-> 0,
           min_val |-> 0, max_val |-> 0, sum_abs |-> 0, non_zero |-> 0,
           avg_abs |-> [num |-> 0, den |-> 1], silent |-> FALSE]

(***************************************************************************)
(* Initial state: no initializer has been called yet                       *)
(***************************************************************************)
Init ==
    /\ phase = "start"
    /\ origin = "none"
    /\ originOk = FALSE
    /\ handle = 0
    /\ inp_ctx = [offset |-> 0, resolved |-> FALSE]
    /\ stream = [avail |-> 0, left |-> 0, open |-> FALSE]
    /\ consumed = 0
    /\ asset = [state |-> "none", left |-> 0]
    /\ engineInits = 0
    /\ cbCalls = 0
    /\ closeCalls = 0
    /\ lastRead = NoRead
    /\ lastEof = NoEof
    /\ lastOp = "none"
    /\ fullCalls = 0
    /\ failStreak = 0
    /\ lastStatus = 0
    /\ engineParams = NoParams
    /\ diag = NoDiag
    /\ bufAcquired = 0
    /\ bufReleased = 0

(***************************************************************************)
(* The initializers                                                        *)
(***************************************************************************)

\* initContext: the path goes straight to whisper_init_from_file_with_params,
\* which opens the file itself and yields nullptr when it cannot load it.
initContext(fileOk, modelOk) ==
    /\ phase = "start"
    /\ origin' = "file"
    /\ originOk' = fileOk
    /\ engineInits' = engineInits + 1
    /\ handle' = IF fileOk /\ modelOk THEN 1 ELSE 0
    /\ phase' = IF fileOk /\ modelOk THEN "ready" ELSE "null"
    /\ lastOp' = "initContext"
    /\ UNCHANGED <<loaderVars, transcribeVars>>

\* initContextFromAsset, through whisper_init_from_asset: nullptr when the
\* AssetManager or the asset cannot be had, else the asset loader goes to
\* whisper_init_with_params.
initContextFromAsset(mgrOk, assetOk, len) ==
    /\ phase = "start"
    /\ origin' = "asset"
    /\ originOk' = (mgrOk /\ assetOk)
    /\ lastOp' = "initContextFromAsset"
    /\ IF mgrOk /\ assetOk
       THEN /\ asset' = [state |-> "open", left |-> len]
            /\ engineInits' = engineInits + 1
            /\ phase' = "loading"
            /\ handle' = 0
       ELSE /\ phase' = "null"
            /\ handle' = 0
            /\ UNCHANGED <<asset, engineInits>>
    /\ UNCHANGED <<inp_ctx, stream, consumed, cbCalls, closeCalls, lastRead, lastEof>>
    /\ UNCHANGED transcribeVars

\* initContextFromInputStream: the method IDs are looked up and used
\* unchecked; loader.eof is called once, then whisper_init.  With a method ID
\* that did not resolve the call through it is undefined: the process dies
\* there, or the call yields some value and the initializer goes on.
initContextFromInputStream(resolved, left, avail, ub) ==
    /\ phase = "start"
    /\ origin' = "stream"
    /\ originOk' = resolved
    /\ inp_ctx' = [offset |-> 0, resolved |-> resolved]
    /\ stream' = input_stream_eof([avail |-> avail, left |-> left, open |-> TRUE]).st
    /\ cbCalls' = cbCalls + 1
    /\ lastOp' = "eof"
    /\ handle' = 0
    /\ IF resolved
       THEN /\ lastEof' = [valid |-> TRUE, avail |-> avail,
                           result |-> input_stream_eof([avail |-> avail, left |-> left, open |-> TRUE]).ret]
            /\ engineInits' = engineInits + 1
            /\ phase' = "loading"
       ELSE /\ lastEof' = NoEof
            /\ IF ub = "crash"
               THEN phase' = "crashed" /\ UNCHANGED engineInits
               ELSE phase' = "loading" /\ engineInits' = engineInits + 1
    /\ UNCHANGED <<consumed, asset, closeCalls, lastRead>>
    /\ UNCHANGED transcribeVars

(***************************************************************************)
(* The engine's init entry point, pulling the model through the loader     *)
(***************************************************************************)

\* The engine calls loader.read(ctx, output, read_size) on a Stream origin:
\* input_stream_read.
StreamRead(read_size) ==
    /\ phase = "loading" /\ origin = "stream" /\ inp_ctx.resolved
    /\ cbCalls <= MaxEngineCalls
    /\ LET avail_size == stream.avail
           size_to_copy == SizeToCopy(read_size, avail_size)
       IN  \E n_read \in HostRead(size_to_copy, stream.left) :
           \E nextAvail \in Available(stream.left - Max(n_read, 0)) :
              /\ stream' = [stream EXCEPT !.avail = nextAvail,
                                          !.left = stream.left - Max(n_read, 0)]
              /\ consumed' = consumed + Max(n_read, 0)
              /\ inp_ctx' = [inp_ctx EXCEPT
                               !.offset = OffsetAfterRead(inp_ctx.offset, size_to_copy, n_read)]
              /\ lastRead' = [valid |-> TRUE, read_size |-> read_size,
                              avail_size |-> avail_size, size_to_copy |-> size_to_copy,
                              n_read |-> n_read,
                              ret |-> ReadReturn(size_to_copy, n_read)]
    /\ cbCalls' = cbCalls + 1
    /\ lastOp' = "read"
    /\ UNCHANGED <<phase, origin, originOk, handle, asset, engineInits, closeCalls, lastEof>>
    /\ UNCHANGED transcribeVars

\* The engine calls loader.eof(ctx) on a Stream origin: input_stream_eof.
StreamEof ==
    /\ phase = "loading" /\ origin = "stream" /\ inp_ctx.resolved
    /\ cbCalls <= MaxEngineCalls
    /\ stream' = input_stream_eof(stream).st
    /\ lastEof' = [valid |-> TRUE, avail |-> stream.avail,
                   result |-> input_stream_eof(stream).ret]
    /\ cbCalls' = cbCalls + 1
    /\ lastOp' = "eof"
    /\ UNCHANGED <<phase, origin, originOk, handle, inp_ctx, consumed, asset,
                   engineInits, closeCalls, lastRead>>
    /\ UNCHANGED transcribeVars

\* A read or eof callback through a method ID that did not resolve:
\* undefined, the process dies or the callback returns some value.
StreamCallbackUnresolved(ub) ==
    /\ phase = "loading" /\ origin = "stream" /\ ~inp_ctx.resolved
    /\ cbCalls <= MaxEngineCalls
    /\ phase' = IF ub = "crash" THEN "crashed" ELSE "loading"
    /\ cbCalls' = cbCalls + 1
    /\ lastOp' = "undefined"
    /\ UNCHANGED <<origin, originOk, handle, inp_ctx, stream, consumed, asset,
                   engineInits, closeCalls, lastRead, lastEof>>
    /\ UNCHANGED transcribeVars

\* The engine calls loader.read on an Asset origin: asset_read.
AssetRead(read_size) ==
    /\ phase = "loading" /\ origin = "asset"
    /\ cbCalls <= MaxEngineCalls
    /\ asset' = asset_read(asset, read_size).a
    /\ cbCalls' = cbCalls + 1
    /\ lastOp' = "read"
    /\ UNCHANGED <<phase, origin, originOk, handle, inp_ctx, stream, consumed,
                   engineInits, closeCalls, lastRead, lastEof>>
    /\ UNCHANGED transcribeVars

\* The engine calls loader.eof on an Asset origin: asset_is_eof.
AssetEof ==
    /\ phase = "loading" /\ origin = "asset"
    /\ cbCalls <= MaxEngineCalls
    /\ asset' = asset_is_eof(asset).a
    /\ lastEof' = [valid |-> TRUE, avail |-> asset.left,
                   result |-> asset_is_eof(asset).ret]
    /\ cbCalls' = cbCalls + 1
    /\ lastOp' = "eof"
    /\ UNCHANGED <<phase, origin, originOk, handle, inp_ctx, stream, consumed,
                   engineInits, closeCalls, lastRead>>
    /\ UNCHANGED transcribeVars

\* The loader's close callbacks a loader was built with
LoaderClose(o, a) == IF o = "asset" THEN asset_close(a) ELSE a

\* The engine ends its init: it calls loader.close once, whether or not the
\* model loaded, and returns the context or nullptr.  The loader is not
\* used after that.
EngineInitReturns(loaded) ==
    /\ phase = "loading"
    /\ asset' = LoaderClose(origin, asset)
    /\ stream' = IF origin = "stream" THEN input_stream_close(stream) ELSE stream
    /\ closeCalls' = closeCalls + 1
    /\ handle' = IF loaded THEN 1 ELSE 0
    /\ phase' = IF loaded THEN "ready" ELSE "null"
    /\ lastOp' = "close"
    /\ UNCHANGED <<origin, originOk, inp_ctx, consumed, engineInits, cbCalls,
                   lastRead, lastEof>>
    /\ UNCHANGED transcribeVars

(***************************************************************************)
(* freeContext and fullTranscribe                                          *)
(***************************************************************************)

\* freeContext: whisper_free(context) if (context).  The caller frees the
\* handle an initializer returned, once.
freeContext ==
    /\ phase \in {"ready", "null"}
    /\ lastOp # "freeContext"
    /\ phase' = IF handle # 0 THEN "freed" ELSE phase
    /\ lastOp' = "freeContext"
    /\ UNCHANGED <<origin, originOk, handle, engineInits>>
    /\ UNCHANGED <<loaderVars, transcribeVars>>

\* fullTranscribe on a live handle: the diagnostics, the parameters, one
\* whisper_full call whose status the engine decides, the release of the
\* borrowed samples.
fullTranscribe(buf, num_threads, status, real) ==
    /\ phase = "ready"
    /\ fullCalls < MaxTranscribes
    /\ LET a == Analyze(buf)
           avg_abs == AvgAbs(a.sum_abs, Len(buf))
       IN  diag' = [valid |-> TRUE, samples |-> buf, num_threads |-> num_threads,
                    min_val |-> a.min_val, max_val |-> a.max_val,
                    sum_abs |-> a.sum_abs, non_zero |-> a.non_zero,
                    avg_abs |-> avg_abs, silent |-> AppearsSilent(avg_abs)]
    /\ engineParams' = BuildParams(DefaultParams("greedy", real), num_threads)
    /\ bufAcquired' = bufAcquired + 1
    /\ fullCalls' = fullCalls + 1
    /\ lastStatus' = status
    /\ failStreak' = IF status # 0 THEN failStreak + 1 ELSE 0
    /\ bufReleased' = ReleasedAfter(bufReleased, status)
    /\ lastOp' = "fullTranscribe"
    /\ UNCHANGED <<phase, origin, originOk, handle, engineInits>>
    /\ UNCHANGED loaderVars

(***************************************************************************)
(* Specifications                                                          *)
(***************************************************************************)
UB == {"crash", "value"}

InitCalls ==
    \/ \E fileOk \in BOOLEAN, modelOk \in BOOLEAN : initContext(fileOk, modelOk)
    \/ \E mgrOk \in BOOLEAN, assetOk \in BOOLEAN, len \in 0..MaxStream :
          initContextFromAsset(mgrOk, assetOk, len)
    \/ \E resolved \in BOOLEAN, left \in 0..MaxStream, ub \in UB :
          \E avail \in Available(left) :
              initContextFromInputStream(resolved, left, avail, ub)

EngineInit ==
    \/ \E read_size \in ReadSizes : StreamRead(read_size)
    \/ StreamEof
    \/ \E ub \in UB : StreamCallbackUnresolved(ub)
    \/ \E read_size \in ReadSizes : AssetRead(read_size)
    \/ AssetEof
    \/ \E loaded \in BOOLEAN : EngineInitReturns(loaded)

\* One fullTranscribe call, over every buffer
TranscribeOnce ==
    \E buf \in Buffers, num_threads \in Threads, status \in StatusVals, real \in BOOLEAN :
        fullCalls = 0 /\ fullTranscribe(buf, num_threads, status, real)

\* fullTranscribe calls one after the other on the same handle
Transcribe ==
    \E buf \in ShortBuffers, num_threads \in Threads, status \in StatusVals, real \in BOOLEAN :
        fullTranscribe(buf, num_threads, status, real)

\* fullTranscribe calls in a whole life of a handle: the empty buffer
TranscribeInLife ==
    \E status \in StatusVals : fullTranscribe(<<>>, 1, status, TRUE)

FileInit ==
    \E fileOk \in BOOLEAN, modelOk \in BOOLEAN : initContext(fileOk, modelOk)

\* The loader: the initializers, the engine pulling the model, freeContext
NextLoader == InitCalls \/ EngineInit \/ freeContext

SpecLoader == Init /\ [][NextLoader]_vars

\* The diagnostics and the parameters of one call
NextDiag == FileInit \/ TranscribeOnce \/ freeContext

SpecDiag == Init /\ [][NextDiag]_vars

\* Calls in a row on a handle that initContext made
NextTranscribe == FileInit \/ Transcribe \/ freeContext

SpecTranscribe == Init /\ [][NextTranscribe]_vars

\* The life of a handle: init, transcribe calls, free
Next == InitCalls \/ EngineInit \/ TranscribeInLife \/ freeContext

Spec == Init /\ [][Next]_vars

(***************************************************************************)
(* Properties                                                              *)
(***************************************************************************)

\* C1: in every Stream-origin read, the length passed to the host stream's
\* read and the number of bytes copied to the engine's buffer (both are
\* size_to_copy) are at most what available() reported in that call.
C1_ClampToAvailable ==
    lastRead.valid => lastRead.size_to_copy <= lastRead.avail_size

\* C2: an initializer whose origin cannot be opened or resolved returns the
\* null handle and invokes neither an engine init entry point nor any loader
\* callback.
C2_FailedOriginShortCircuits ==
    (origin # "none" /\ ~originOk) =>
        /\ handle = 0
        /\ engineInits = 0
        /\ cbCalls = 0
        /\ closeCalls = 0

\* An eof callback of a usable origin has just run
EofStep == lastOp' = "eof" /\ cbCalls' = cbCalls + 1 /\ lastEof'.valid

\* C3: an eof call changes neither the loader offset, nor the bytes the
\* origin still holds, nor its available / remaining count; it returns true
\* exactly when that count is <= 0; an eof that follows an eof with no read
\* in between returns the same value.
C3_EofSideEffectFree ==
    [][EofStep =>
        /\ inp_ctx'.offset = inp_ctx.offset
        /\ consumed' = consumed
        /\ (phase = "loading" => stream' = stream /\ asset' = asset)
        /\ (origin' = "stream" => stream'.avail = lastEof'.avail)
        /\ (origin' = "asset" => asset'.left = lastEof'.avail)
        /\ lastEof'.result = (lastEof'.avail <= 0)
        /\ ((lastOp = "eof" /\ lastEof.valid) => lastEof'.result = lastEof.result)
      ]_vars

\* Three eof calls in a row on a stream that has bytes available
C3_Witness ==
    /\ origin = "stream" /\ lastOp = "eof" /\ cbCalls = 3
    /\ ~lastRead.valid /\ lastEof.valid /\ ~lastEof.result
    /\ stream.left > 0

C5_FixedParams ==
    diag.valid =>
        /\ engineParams.entropy_thold = 28
        /\ engineParams.logprob_thold = -15
        /\ engineParams.no_speech_thold = 3
        /\ engineParams.language = "en"
        /\ engineParams.translate = FALSE
        /\ engineParams.single_segment = FALSE
        /\ engineParams.strategy = "greedy"
        /\ engineParams.n_threads = diag.num_threads

\* A call with the empty buffer and a thread hint of 2
C5_Witness ==
    diag.valid /\ diag.samples = <<>> /\ diag.num_threads = 2 /\ fullCalls = 1

\* C6 as stated: progress, timestamp, realtime and special-token printing
\* are all disabled in the parameters of every call.
C6_EnginePrintingDisabled ==
    diag.valid =>
        /\ engineParams.print_progress = FALSE
        /\ engineParams.print_timestamps = FALSE
        /\ engineParams.print_realtime = FALSE
        /\ engineParams.print_special = FALSE

\* C6 amended: progress, realtime and special-token printing are disabled;
\* print_timestamps is set to true.
C6_PrintFlags ==
    diag.valid =>
        /\ engineParams.print_progress = FALSE
        /\ engineParams.print_realtime = FALSE
        /\ engineParams.print_special = FALSE
        /\ engineParams.print_timestamps = TRUE

\* A call was made and its parameters ask for timestamps
C6_Witness ==
    diag.valid /\ fullCalls = 1 /\ engineParams.print_timestamps /\ Len(diag.samples) = 2

RECURSIVE SumAbs(_)
SumAbs(s) == IF s = <<>> THEN 0 ELSE Abs(Head(s)) + SumAbs(Tail(s))

SeqMin(s) == CHOOSE v \in {s[i] : i \in 1..Len(s)} : \A i \in 1..Len(s) : v <= s[i]
SeqMax(s) == CHOOSE v \in {s[i] : i \in 1..Len(s)} : \A i \in 1..Len(s) : v >= s[i]
CountNonZero(s) == Cardinality({i \in 1..Len(s) : s[i] # 0})

\* C7: a buffer whose samples all lie within +/-0.0005 is flagged silent, a
\* buffer with mean absolute amplitude >= 0.01 is not, a non-empty buffer is
\* flagged exactly when its mean absolute amplitude is below 0.001, and
\* whisper_full is invoked once per call whatever the flag.  The empty
\* buffer is one of the buffers.
C7_SilenceFlag ==
    diag.valid =>
        LET s == diag.samples
            n == Len(s)
        IN  /\ ((\A i \in 1..n : Abs(s[i]) <= 5) => diag.silent)
            /\ ((n > 0 /\ SumAbs(s) >= 100 * n) => ~diag.silent)
            /\ (n > 0 => (diag.silent <=> SumAbs(s) < 10 * n))
            /\ fullCalls = bufAcquired

\* The fullTranscribe step
TranscribeStep == bufAcquired' = bufAcquired + 1

\* C8: a fullTranscribe call whose whisper_full fails still returns, with
\* the samples released and the handle live, and the next call is accepted
\* and invokes whisper_full again, however many calls failed before.
C8_FailureIsRecoverable ==
    /\ []((lastOp = "fullTranscribe" /\ lastStatus # 0) =>
            /\ phase = "ready" /\ handle # 0
            /\ bufReleased = bufAcquired
            /\ (fullCalls < MaxTranscribes => ENABLED Transcribe))
    /\ [][TranscribeStep =>
            /\ fullCalls' = fullCalls + 1
            /\ bufReleased' = bufReleased + 1
            /\ phase' = "ready" /\ handle' = handle
         ]_vars

\* Three calls in a row failed, each accepted after the one before
C8_Witness ==
    failStreak = 3 /\ fullCalls = 3 /\ bufReleased = 3 /\ phase = "ready"

\* C9: for a non-empty buffer the diagnostics report its true minimum, its
\* true maximum and the number of its samples that are not 0.
C9_MinMaxExact ==
    (diag.valid /\ Len(diag.samples) > 0) =>
        /\ diag.min_val = SeqMin(diag.samples)
        /\ diag.max_val = SeqMax(diag.samples)
        /\ diag.non_zero = CountNonZero(diag.samples)

\* C10: a Stream-origin read returns the number of bytes the host stream's
\* read delivered, and the loader offset is the number of bytes consumed
\* from the host stream.
C10_ReturnIsDelivered ==
    /\ (lastRead.valid => lastRead.ret = lastRead.n_read)
    /\ inp_ctx.offset = consumed

====
